---- MODULE Spec2Model ----
(***************************************************************************)
(* The go-news Discord relay (src/src/main.rs): the gateway's ready        *)
(* handler spawns a checker task; each checker task loops over             *)
(* interval.tick() and check_for_updates (GET /items/unposted, one chat    *)
(* send and one 1 s sleep per item, POST /items/mark-posted).              *)
(*                                                                         *)
(* The backend and the chat platform are the environment: the backend      *)
(* keeps the list of unposted items and drops the links a successful       *)
(* mark-posted names; every HTTP call and every chat send may fail.        *)
(***************************************************************************)
EXTENDS Naturals, Sequences, FiniteSets

\* ------------------------------------------------------------- bounds

\* Gateway sessions of one run (the connect, then one per re-identify after a
\* reconnect that could not resume); each session delivers one ready event.
MaxReady == 2
\* Length of the backend's list of unposted items when the process starts.
MaxItems == 3
\* The same, in the runs whose gateway re-identifies.
MaxBacklog == 1
\* The same, in the runs checked for progress under fairness.
MaxFairItems == 2
\* Ticks one checker task's interval yields.
MaxTicks == 3

\* ------------------------------------------------------------- program constants

\* `.unwrap_or("60".to_string())`: the interval when CHECK_INTERVAL_SECONDS is unset.
DefaultInterval == 60
\* `tokio::time::sleep(Duration::from_secs(1))`: the delay after each send.
SleepSeconds == 1

\* ------------------------------------------------------------- data

\* RssItem, reduced to the fields the control flow and the requests read:
\* title and description are only copied into the embed.
RssItem ==
    { [link |-> "a", pub_date |-> "Wed, 02 Oct 2024 15:00:00 +0000", posted |-> FALSE],
      [link |-> "b", pub_date |-> "not-a-date", posted |-> TRUE],
      [link |-> "c", pub_date |-> "Sat, 01 Jan 10000 00:00:00 +0000", posted |-> FALSE] }

\* The tasks tokio::spawn can have created: one per ready event.
Tasks == 1..MaxReady

\* Outcomes of `http_client.get(..).send().await?`, the status test and
\* `response.json().await?`.
GetOutcomes == {"ok", "transport", "status", "decode"}

\* Outcomes of `http_client.post(..).json(..).send().await?` and the status test.
PostOutcomes == {"ok", "transport", "status"}

\* Sequences over S of length at most n.
SeqUpTo(S, n) == UNION { [1..k -> S] : k \in 0..n }

\* One entry of a tick's trace of external operations.
Event(op, its, links, res) ==
    [op |-> op, items |-> its, links |-> links, res |-> res]

\* The GET a tick issues, with the instant on the task's clock.
GetEvent(at) ==
    [op |-> "get", items |-> <<>>, links |-> <<>>, res |-> "", at |-> at]

\* A chat send: the item, the embed's timestamp, how the send ended, and the
\* instant on the task's clock.
SendEvent(item, ts, res, at) ==
    [op |-> "send", items |-> <<item>>, links |-> <<>>, res |-> res, ts |-> ts, at |-> at]

\* Instants are a day number since 1970-01-01 and a second of that day.
\* chrono::DateTime::parse_from_rfc2822 on the dates of RssItem: the instant,
\* or no instant for what is not an RFC 2822 date. A year of five digits is
\* a date to it.
ParseRfc2822(str) ==
    CASE str = "Wed, 02 Oct 2024 15:00:00 +0000" -> [ok |-> TRUE, days |-> 19998, secs |-> 54000]
      [] str = "Sat, 01 Jan 10000 00:00:00 +0000" -> [ok |-> TRUE, days |-> 2932897, secs |-> 0]
      [] OTHER -> [ok |-> FALSE, days |-> 0, secs |-> 0]

\* The last day a serenity Timestamp holds: 9999-12-31.
MaxTimestampDay == 2932896

\* Timestamp::from_unix_timestamp: Err outside the years a Timestamp holds.
FromUnixTimestampOk(inst) == inst.days <= MaxTimestampDay

\* The day the process runs on, and Timestamp::now() when the task's clock
\* shows `at` seconds.
BootDay == 20759
NowInstant(at) == [days |-> BootDay, secs |-> at]

\* A fallback to the epoch instead of the current time (unwrap_or_default).
EmbedTimestampEpoch(pub_date, now) ==
    LET p == ParseRfc2822(pub_date)
    IN IF p.ok /\ FromUnixTimestampOk(p) THEN [days |-> p.days, secs |-> p.secs]
       ELSE [days |-> 0, secs |-> 0]

\* The `timestamp` of the embed: the parsed instant if pub_date parses and
\* from_unix_timestamp takes it, the current time in both other cases.
EmbedTimestamp(pub_date, now) ==
    LET p == ParseRfc2822(pub_date)
    IN IF p.ok
       THEN IF FromUnixTimestampOk(p) THEN [days |-> p.days, secs |-> p.secs] ELSE now
       ELSE now

VARIABLES
    env,            \* the process environment read by main and run_checker
    main,           \* where main is: before client.start(), in it, or gone
    sessions,       \* gateway sessions this run goes through
    readyCount,     \* ready events delivered so far
    pc,             \* per task: where it is suspended
    items,          \* per task: `items` of check_for_updates
    idx,            \* per task: items the for loop has finished with
    posted_links,   \* per task: `posted_links` of check_for_updates
    result,         \* per task: what check_for_updates returned last
    backend,        \* the backend's unposted items, in its order
    log,            \* per task: external operations of the current tick
    unacked,        \* per task: links delivered by the previous tick whose
                    \* mark-posted failed (history)
    settled,        \* links some mark-posted request got a 2xx for (history)
    age,            \* per task: seconds since its interval was created
    fired           \* per task: ticks its interval has yielded

vars == <<env, main, sessions, readyCount, pc, items, idx, posted_links, result, backend, log, unacked, settled, age, fired>>

\* ------------------------------------------------------------- helpers

\* main: what it takes to get into client.start() and stay there.
EntersEventLoop(e) == e.DISCORD_TOKEN = "valid"

\* run_checker's configuration load: every `expect` must pass.
ConfigLoads(e) ==
    /\ e.CHANNEL_ID = "number"
    /\ e.BACKEND_API_URL = "set"
    /\ e.CHECK_INTERVAL_SECONDS \in {"unset", "0", "2"}

\* `interval_seconds`: the default, or the number parsed.
IntervalSeconds(e) ==
    CASE e.CHECK_INTERVAL_SECONDS = "unset" -> DefaultInterval
      [] e.CHECK_INTERVAL_SECONDS = "2" -> 2
      [] OTHER -> 0

\* An interval whose first tick comes one period after its creation
\* (`interval_at(Instant::now() + period, period)`).
DeadlineAfterPeriod(k, period) == (k + 1) * period

\* tokio::time::interval: the instant, counted from the interval's creation,
\* at which tick number k (from 0) completes; the first completes at once
\* and a missed tick is not rescheduled (MissedTickBehavior::Burst).
Deadline(k, period) == k * period

\* A checker that starts a tick at every timer fire, without awaiting the
\* call before (check_for_updates spawned, not awaited).
AwaitingTimerOrBusy(p) == p \in {"tick", "get", "send", "sleep", "post", "returned"}

\* The loop is at `interval.tick().await`.
AwaitingTimer(p) == p = "tick"

\* A loop that an error ends (`check_for_updates(..).await.unwrap()`).
AfterOutcomeStopOnErr(res) == IF res = "Err" THEN "panicked" ELSE "tick"

\* `match check_for_updates(..).await`: both arms log and the loop goes round.
AfterOutcome(res) == "tick"

\* A loop that skips the items the backend's own flag calls posted.
ItemsToPostUnposted(body, seen) == SelectSeq(body, LAMBDA it : ~it.posted)

\* A loop that skips what an earlier tick delivered (a client-side record).
ItemsToPostDedup(body, seen) ==
    SelectSeq(body, LAMBDA it : \A k \in 1..Len(seen) : seen[k] # it.link)

\* `for item in items`: the items the loop visits. Nothing of an earlier tick
\* (`seen`: the links it delivered and could not acknowledge) is consulted.
ItemsToPost(body, seen) == body

\* The acknowledgment issued whatever was fetched or delivered.
NextStepAlwaysMark(its, done, links) ==
    IF done < Len(its) THEN "send" ELSE "post"

\* The acknowledgment guarded by `items` instead of `posted_links`.
NextStepMarkWhenFetched(its, done, links) ==
    IF its = <<>> THEN "returned"
    ELSE IF done < Len(its) THEN "send"
    ELSE "post"

\* A failed send that ends the tick (`send_message(..).await?`).
NextStepAbortOnFailure(its, done, links) ==
    IF its = <<>> \/ Len(links) < done THEN "returned"
    ELSE IF done < Len(its) THEN "send"
    ELSE IF links # <<>> THEN "post"
    ELSE "returned"

\* The acknowledgment issued inside the loop, after the first delivery.
NextStepMarkEarly(its, done, links) ==
    IF its = <<>> THEN "returned"
    ELSE IF links # <<>> THEN "post"
    ELSE IF done < Len(its) THEN "send"
    ELSE "returned"

\* Where check_for_updates goes once `done` of `its` have been handled: the
\* early return on an empty array, the for loop, then the test of posted_links.
NextStep(its, done, links) ==
    IF its = <<>> THEN "returned"
    ELSE IF done < Len(its) THEN "send"
    ELSE IF links # <<>> THEN "post"
    ELSE "returned"

\* A batch that outlives the call (declared outside check_for_updates).
FreshBatchKept(old) == old

\* `let mut posted_links = Vec::new()`: the batch a call starts with.
FreshBatch(old) == <<>>

\* A delay placed in the Ok arm of the match: none after a failed send.
SleptOnSuccess(trace) ==
    IF trace[Len(trace)].res = "ok"
    THEN Append(trace, Event("sleep", <<>>, <<>>, ""))
    ELSE trace

\* `tokio::time::sleep(Duration::from_secs(1)).await`, after the match: the
\* trace once the delay that follows a send is over.
Slept(trace) == Append(trace, Event("sleep", <<>>, <<>>, ""))

\* The link pushed whatever the send returned.
PushLinkAlways(links, item, sent) == Append(links, item.link)

\* `match send_result`: posted_links after the send of `item`.
PushLink(links, item, sent) ==
    IF sent THEN Append(links, item.link) ELSE links

\* A GET whose non-2xx status or bad body is logged and swallowed.
GetResultSwallow(outcome) == IF outcome = "transport" THEN "Err" ELSE "Ok"

\* What check_for_updates returns for an outcome of the GET.
GetResult(outcome) == IF outcome = "ok" THEN "Ok" ELSE "Err"

\* What check_for_updates returns for an outcome of the POST: `?` propagates
\* a transport error; a non-2xx status is logged and falls through to Ok(()).
PostResult(outcome) == IF outcome = "transport" THEN "Err" ELSE "Ok"

\* The trace once check_for_updates has moved on to `step`: going to the
\* acknowledgment issues the POST with posted_links as its payload.
Enter(step, trace, links) ==
    IF step = "post" THEN Append(trace, Event("post", <<>>, links, "")) ELSE trace

\* The backend after a mark-posted request it answered with 2xx.
MarkPosted(list, links) ==
    SelectSeq(list, LAMBDA it : \A k \in 1..Len(links) : links[k] # it.link)

\* ------------------------------------------------------------- initial state

Init ==
    /\ env \in [DISCORD_TOKEN : {"unset", "rejected", "valid"},
                CHANNEL_ID : {"unset", "garbage", "number"},
                BACKEND_API_URL : {"unset", "set"},
                CHECK_INTERVAL_SECONDS : {"unset", "garbage", "0", "2"}]
    /\ main = "init"
    /\ sessions = 1
    /\ readyCount = 0
    /\ pc = [t \in Tasks |-> "unspawned"]
    /\ items = [t \in Tasks |-> <<>>]
    /\ idx = [t \in Tasks |-> 0]
    /\ posted_links = [t \in Tasks |-> <<>>]
    /\ result = [t \in Tasks |-> "none"]
    /\ backend \in SeqUpTo(RssItem, MaxItems)
    /\ log = [t \in Tasks |-> <<>>]
    /\ unacked = [t \in Tasks |-> <<>>]
    /\ settled = {}
    /\ age = [t \in Tasks |-> 0]
    /\ fired = [t \in Tasks |-> 0]

\* ------------------------------------------------------------- actions

\* main up to client.start(): without DISCORD_TOKEN the `expect` panics; a
\* token the gateway rejects makes start() return Err and main ends; else
\* main stays in start(), the event loop, for good. Nothing else is read.
MainStart ==
    /\ main = "init"
    /\ main' = IF EntersEventLoop(env) THEN "running" ELSE "exited"
    /\ UNCHANGED <<env, sessions, readyCount, pc, items, idx, posted_links, result,
                   backend, log, unacked, settled, age, fired>>

\* Handler::ready: every ready event spawns a task running run_checker.
Ready ==
    /\ main = "running"
    /\ readyCount < sessions
    /\ readyCount' = readyCount + 1
    /\ pc' = [pc EXCEPT ![readyCount + 1] = "start"]
    /\ UNCHANGED <<env, main, sessions, items, idx, posted_links, result, backend, log, unacked, settled, age, fired>>

\* run_checker up to the loop: the configuration is read and the interval
\* made; a failed `expect`, or a period of zero, panics the task.
RunCheckerStart(t) ==
    /\ pc[t] = "start"
    /\ pc' = [pc EXCEPT ![t] =
                 IF ConfigLoads(env) /\ IntervalSeconds(env) > 0 THEN "tick" ELSE "panicked"]
    /\ UNCHANGED <<env, main, sessions, readyCount, items, idx, posted_links, result, backend, log, unacked, settled, age, fired>>

\* interval.tick() completes; check_for_updates is called and issues the GET.
IntervalTick(t) ==
    /\ AwaitingTimer(pc[t])
    /\ fired[t] < MaxTicks
    /\ age[t] >= Deadline(fired[t], IntervalSeconds(env))
    /\ fired' = [fired EXCEPT ![t] = @ + 1]
    /\ pc' = [pc EXCEPT ![t] = "get"]
    /\ items' = [items EXCEPT ![t] = <<>>]
    /\ idx' = [idx EXCEPT ![t] = 0]
    /\ posted_links' = [posted_links EXCEPT ![t] = FreshBatch(@)]
    /\ log' = [log EXCEPT ![t] = <<GetEvent(age[t])>>]
    /\ UNCHANGED <<env, main, sessions, readyCount, result, backend, unacked, settled, age>>

\* The task is parked in interval.tick() until the tick's instant.
TimerWait(t) ==
    /\ pc[t] = "tick"
    /\ fired[t] < MaxTicks
    /\ age[t] < Deadline(fired[t], IntervalSeconds(env))
    /\ age' = [age EXCEPT ![t] = Deadline(fired[t], IntervalSeconds(env))]
    /\ UNCHANGED <<env, main, sessions, readyCount, pc, items, idx, posted_links, result,
                   backend, log, unacked, settled, fired>>

\* The GET completes: an error returns Err, an empty array returns Ok(()),
\* anything else enters the for loop.
GetResponse(t, outcome) ==
    /\ pc[t] = "get"
    /\ LET body == IF outcome = "ok" THEN backend ELSE <<>>
           its == ItemsToPost(body, unacked[t])
           step == IF outcome = "ok" THEN NextStep(its, 0, <<>>) ELSE "returned"
       IN /\ log' = [log EXCEPT ![t] =
                        Enter(step, Append(@, Event("get_resp", body, <<>>, outcome)), <<>>)]
          /\ items' = [items EXCEPT ![t] = its]
          /\ pc' = [pc EXCEPT ![t] = step]
          /\ result' = [result EXCEPT ![t] =
                            IF step = "returned" THEN GetResult(outcome) ELSE @]
    /\ UNCHANGED <<env, main, sessions, readyCount, idx, posted_links, backend, unacked, settled, age, fired>>

\* channel_id.send_message(..).await for the current item, and the match on it.
SendMessage(t, sent) ==
    /\ pc[t] = "send"
    /\ LET item == items[t][idx[t] + 1]
       IN /\ log' = [log EXCEPT ![t] =
                        Append(@, SendEvent(item,
                                            EmbedTimestamp(item.pub_date, NowInstant(age[t])),
                                            IF sent THEN "ok" ELSE "err", age[t]))]
          /\ posted_links' = [posted_links EXCEPT ![t] = PushLink(@, item, sent)]
    /\ pc' = [pc EXCEPT ![t] = "sleep"]
    /\ UNCHANGED <<env, main, sessions, readyCount, items, idx, result, backend, unacked, settled, age, fired>>

\* tokio::time::sleep(1 s) completes; the loop goes on, or ends: then the POST
\* is issued if posted_links is not empty, and Ok(()) is returned otherwise.
Sleep(t) ==
    /\ pc[t] = "sleep"
    /\ LET step == NextStep(items[t], idx[t] + 1, posted_links[t])
           slept == Slept(log[t])
       IN /\ idx' = [idx EXCEPT ![t] = @ + 1]
          /\ pc' = [pc EXCEPT ![t] = step]
          /\ log' = [log EXCEPT ![t] = Enter(step, slept, posted_links[t])]
          /\ result' = [result EXCEPT ![t] = IF step = "returned" THEN "Ok" ELSE @]
    /\ age' = [age EXCEPT ![t] = @ + SleepSeconds]
    /\ UNCHANGED <<env, main, sessions, readyCount, items, posted_links, backend, unacked, settled, fired>>

\* The POST completes and check_for_updates returns.
PostResponse(t, outcome) ==
    /\ pc[t] = "post"
    /\ log' = [log EXCEPT ![t] = Append(@, Event("post_resp", <<>>, posted_links[t], outcome))]
    /\ backend' = IF outcome = "ok" THEN MarkPosted(backend, posted_links[t]) ELSE backend
    /\ result' = [result EXCEPT ![t] = PostResult(outcome)]
    /\ pc' = [pc EXCEPT ![t] = "returned"]
    /\ settled' = IF outcome = "ok"
                  THEN settled \cup {posted_links[t][k] : k \in 1..Len(posted_links[t])}
                  ELSE settled
    /\ UNCHANGED <<env, main, sessions, readyCount, items, idx, posted_links, unacked, age, fired>>

\* run_checker's match on the outcome: it is logged and the loop goes round.
LogOutcome(t) ==
    /\ pc[t] = "returned"
    /\ pc' = [pc EXCEPT ![t] = AfterOutcome(result[t])]
    /\ unacked' = [unacked EXCEPT ![t] =
                      IF /\ log[t][Len(log[t])].op = "post_resp"
                         /\ log[t][Len(log[t])].res # "ok"
                      THEN log[t][Len(log[t])].links
                      ELSE <<>>]
    /\ UNCHANGED <<env, main, sessions, readyCount, items, idx, posted_links, result, backend,
                   log, settled, age, fired>>

Next ==
    \/ MainStart
    \/ Ready
    \/ \E t \in Tasks : RunCheckerStart(t)
    \/ \E t \in Tasks : TimerWait(t)
    \/ \E t \in Tasks : IntervalTick(t)
    \/ \E t \in Tasks, o \in GetOutcomes : GetResponse(t, o)
    \/ \E t \in Tasks, s \in BOOLEAN : SendMessage(t, s)
    \/ \E t \in Tasks : Sleep(t)
    \/ \E t \in Tasks, o \in PostOutcomes : PostResponse(t, o)
    \/ \E t \in Tasks : LogOutcome(t)

Spec == Init /\ [][Next]_vars

\* The runs whose gateway goes through up to MaxReady sessions.
InitReconnect ==
    /\ env \in [DISCORD_TOKEN : {"unset", "rejected", "valid"},
                CHANNEL_ID : {"unset", "garbage", "number"},
                BACKEND_API_URL : {"unset", "set"},
                CHECK_INTERVAL_SECONDS : {"unset", "garbage", "0", "2"}]
    /\ main = "init"
    /\ sessions \in 1..MaxReady
    /\ readyCount = 0
    /\ pc = [t \in Tasks |-> "unspawned"]
    /\ items = [t \in Tasks |-> <<>>]
    /\ idx = [t \in Tasks |-> 0]
    /\ posted_links = [t \in Tasks |-> <<>>]
    /\ result = [t \in Tasks |-> "none"]
    /\ backend \in SeqUpTo(RssItem, MaxBacklog)
    /\ log = [t \in Tasks |-> <<>>]
    /\ unacked = [t \in Tasks |-> <<>>]
    /\ settled = {}
    /\ age = [t \in Tasks |-> 0]
    /\ fired = [t \in Tasks |-> 0]

SpecReconnect == InitReconnect /\ [][Next]_vars

\* What task t does on its own once spawned: the runtime polls a task that
\* can go on, a timer that is due fires, and every external call returns.
TaskStep(t) ==
    \/ RunCheckerStart(t)
    \/ TimerWait(t)
    \/ IntervalTick(t)
    \/ \E o \in GetOutcomes : GetResponse(t, o)
    \/ \E sent \in BOOLEAN : SendMessage(t, sent)
    \/ Sleep(t)
    \/ \E o \in PostOutcomes : PostResponse(t, o)
    \/ LogOutcome(t)

\* The runs checked for progress: one gateway session.
InitFair ==
    /\ env \in [DISCORD_TOKEN : {"unset", "rejected", "valid"},
                CHANNEL_ID : {"unset", "garbage", "number"},
                BACKEND_API_URL : {"unset", "set"},
                CHECK_INTERVAL_SECONDS : {"unset", "garbage", "0", "2"}]
    /\ main = "init"
    /\ sessions = 1
    /\ readyCount = 0
    /\ pc = [t \in Tasks |-> "unspawned"]
    /\ items = [t \in Tasks |-> <<>>]
    /\ idx = [t \in Tasks |-> 0]
    /\ posted_links = [t \in Tasks |-> <<>>]
    /\ result = [t \in Tasks |-> "none"]
    /\ backend \in SeqUpTo(RssItem, MaxFairItems)
    /\ log = [t \in Tasks |-> <<>>]
    /\ unacked = [t \in Tasks |-> <<>>]
    /\ settled = {}
    /\ age = [t \in Tasks |-> 0]
    /\ fired = [t \in Tasks |-> 0]

SpecFair == InitFair /\ [][Next]_vars /\ \A t \in Tasks : WF_vars(TaskStep(t))

\* ------------------------------------------------------------- reading a trace

\* The events of a trace with operation `op`, in order.
Ops(trace, op) == SelectSeq(trace, LAMBDA e : e.op = op)

\* Whether the tick's GET has answered, and how.
Answered(trace) == Len(trace) >= 2 /\ trace[2].op = "get_resp"
FetchOk(trace) == Answered(trace) /\ trace[2].res = "ok"
FetchFailed(trace) == Answered(trace) /\ trace[2].res # "ok"

\* The items the backend returned in this tick.
Fetched(trace) == IF FetchOk(trace) THEN trace[2].items ELSE <<>>

\* The links of the fetched items whose send (the k-th send is item k's)
\* succeeded, in the order fetched.
DeliveredLinks(trace) ==
    LET F == Fetched(trace)
        S == Ops(trace, "send")
        ks == SelectSeq([k \in 1..Len(F) |-> k],
                        LAMBDA k : k <= Len(S) /\ S[k].res = "ok")
    IN [j \in 1..Len(ks) |-> F[ks[j]].link]

\* How many events among the first n of a trace have operation `op`.
CountBefore(trace, n, op) == Len(Ops(SubSeq(trace, 1, n), op))

\* How many items of a sequence carry link l.
Occurrences(its, l) == Len(SelectSeq(its, LAMBDA it : it.link = l))

\* check_for_updates is executing in task t.
InTick(t) == pc[t] \in {"get", "send", "sleep", "post"}

\* Task t's tick has run to the end of its for loop.
LoopOver(t) == pc[t] \in {"post", "returned"} /\ Fetched(log[t]) # <<>>

\* ------------------------------------------------------------- claims

\* C1: in a tick with a non-empty fetch, the links of the mark-posted request
\* are exactly the links of the fetched items whose send succeeded, in the
\* order of the sends; a failed send removes its own link and no other, and
\* the request is there whenever some send succeeded.
C1_AckIsDelivered ==
    \A t \in Tasks :
        LET P == Ops(log[t], "post")
        IN /\ \A k \in 1..Len(P) : P[k].links = DeliveredLinks(log[t])
           /\ (LoopOver(t) /\ DeliveredLinks(log[t]) # <<>>) => Len(P) = 1

\* C1 witness: three items fetched, the second send failed, the first and
\* the third succeeded, and the request names the first and third links.
C1_Witness ==
    \E t \in Tasks :
        LET F == Fetched(log[t])
            S == Ops(log[t], "send")
            P == Ops(log[t], "post")
        IN /\ pc[t] = "returned"
           /\ Len(F) = 3 /\ Len(S) = 3 /\ Len(P) = 1
           /\ F[1].link # F[2].link
           /\ S[1].res = "ok" /\ S[2].res = "err" /\ S[3].res = "ok"
           /\ P[1].links = <<F[1].link, F[3].link>>

C3_CheckerSpawnedOnce ==
    Cardinality({t \in Tasks : pc[t] # "unspawned"}) <= 1

\* C4: a tick whose fetch succeeds with an empty array attempts no chat send,
\* issues no mark-posted request, and ends with Ok.
C4_EmptyFetchDoesNothing ==
    \A t \in Tasks :
        (FetchOk(log[t]) /\ Fetched(log[t]) = <<>>) =>
            /\ Len(log[t]) = 2
            /\ ~InTick(t)
            /\ result[t] = "Ok"

\* C4 witness: a tick has returned from an empty fetch.
C4_Witness ==
    \E t \in Tasks :
        pc[t] = "returned" /\ FetchOk(log[t]) /\ Fetched(log[t]) = <<>>

\* C5: a tick issues at most one mark-posted request, never one with an empty
\* list of links, and none at all when every send of a non-empty fetch failed.
C5_AckOnceAndNonEmpty ==
    \A t \in Tasks :
        LET P == Ops(log[t], "post")
        IN /\ Len(P) <= 1
           /\ \A k \in 1..Len(P) : P[k].links # <<>>
           /\ (LoopOver(t) /\ \A e \in {Ops(log[t], "send")[k] : k \in 1..Len(Ops(log[t], "send"))} :
                                  e.res = "err")
                 => (P = <<>> /\ pc[t] = "returned")

\* C5 witness: a tick fetched two items, both sends failed, and it returned.
C5_Witness ==
    \E t \in Tasks :
        LET S == Ops(log[t], "send")
        IN /\ pc[t] = "returned"
           /\ Len(Fetched(log[t])) = 2 /\ Len(S) = 2
           /\ S[1].res = "err" /\ S[2].res = "err"

\* C6: when the previous tick delivered links and its mark-posted failed, and
\* this tick's fetch returns items with those links, each of them is sent
\* again: as many sends as the fetch holds items with that link.
C6_RedeliveryAfterFailedAck ==
    \A t \in Tasks :
        (pc[t] = "returned" /\ FetchOk(log[t]) /\ unacked[t] # <<>>) =>
            \A k \in 1..Len(unacked[t]) :
                Occurrences(Fetched(log[t]), unacked[t][k])
                    = Len(SelectSeq(Ops(log[t], "send"),
                                    LAMBDA e : e.items[1].link = unacked[t][k]))

\* C6 witness: the previous tick's acknowledgment of two links failed, this
\* tick fetched items with both links and has sent them again.
C6_Witness ==
    \E t \in Tasks :
        /\ pc[t] = "returned"
        /\ Len(unacked[t]) = 2
        /\ \A k \in 1..2 : Occurrences(Fetched(log[t]), unacked[t][k]) > 0
        /\ \A k \in 1..2 : \E j \in 1..Len(log[t]) :
               /\ log[t][j].op = "send"
               /\ log[t][j].res = "ok"
               /\ log[t][j].items[1].link = unacked[t][k]

\* C7: a non-2xx answer to the mark-posted POST makes check_for_updates
\* return an error for that tick.
C7_AckStatusIsAnError ==
    \A t \in Tasks :
        (/\ pc[t] = "returned"
         /\ log[t][Len(log[t])].op = "post_resp"
         /\ log[t][Len(log[t])].res = "status") => result[t] = "Err"

\* C8: a tick whose fetch fails (transport, status or body) ends with Err
\* having attempted no send and no mark-posted, and a tick fetches once.
C8_FailedFetchEndsTick ==
    \A t \in Tasks :
        /\ Len(Ops(log[t], "get")) <= 1
        /\ FetchFailed(log[t]) =>
              /\ Len(log[t]) = 2
              /\ ~InTick(t)
              /\ result[t] = "Err"

\* C8 witness: a tick has returned from a fetch whose body did not decode.
C8_Witness ==
    \E t \in Tasks :
        pc[t] = "returned" /\ Answered(log[t]) /\ log[t][2].res = "decode"

\* C9: the sends of a tick are the fetched items, one send each, in the order
\* fetched; once the loop is over every fetched item has had its send,
\* whatever sends failed.
C9_OneSendPerItemInOrder ==
    \A t \in Tasks :
        LET F == Fetched(log[t])
            S == Ops(log[t], "send")
        IN /\ Len(S) <= Len(F)
           /\ \A k \in 1..Len(S) : S[k].items = <<F[k]>>
           /\ (pc[t] \in {"post", "returned"} /\ FetchOk(log[t])) => Len(S) = Len(F)

\* C9 witness: the first of three sends failed and the two after it were
\* still attempted.
C9_Witness ==
    \E t \in Tasks :
        LET S == Ops(log[t], "send")
        IN /\ pc[t] = "returned"
           /\ Len(Fetched(log[t])) = 3 /\ Len(S) = 3
           /\ S[1].res = "err" /\ S[3].res = "ok"

\* C10: the mark-posted request comes after every send of the tick and after
\* the sleep that follows each, and no send or sleep comes after it.
C10_AckAfterAllSends ==
    \A t \in Tasks :
        \A i \in 1..Len(log[t]) :
            log[t][i].op = "post" =>
                /\ CountBefore(log[t], i, "send") = Len(Fetched(log[t]))
                /\ CountBefore(log[t], i, "sleep") = Len(Fetched(log[t]))
                /\ \A j \in (i + 1)..Len(log[t]) : log[t][j].op = "post_resp"

\* C10 witness: a request is in flight after three sends and three sleeps.
C10_Witness ==
    \E t \in Tasks :
        /\ pc[t] = "post"
        /\ Len(Fetched(log[t])) = 3
        /\ Len(Ops(log[t], "sleep")) = 3
        /\ log[t][Len(log[t])].op = "post"

\* C14: every send of a tick, failed or not and the last one included, is
\* followed by one delay before the next send or the mark-posted request, and
\* a delay only ever follows a send; a tick that fetched n items has made
\* exactly n delays once its loop is over.
C14_DelayAfterEverySend ==
    \A t \in Tasks :
        /\ \A i \in 1..Len(log[t]) :
              /\ (log[t][i].op = "send" /\ i < Len(log[t])) => log[t][i + 1].op = "sleep"
              /\ log[t][i].op = "sleep" => log[t][i - 1].op = "send"
              /\ (log[t][i].op = "send" /\ i = Len(log[t])) => pc[t] = "sleep"
        /\ LoopOver(t) => Len(Ops(log[t], "sleep")) = Len(Fetched(log[t]))

\* C14 witness: three items, the last send failed, and the tick has ended
\* after three delays.
C14_Witness ==
    \E t \in Tasks :
        /\ pc[t] = "returned"
        /\ Len(Fetched(log[t])) = 3
        /\ Ops(log[t], "send")[3].res = "err"
        /\ Len(Ops(log[t], "sleep")) = 3
        /\ log[t][Len(log[t])].op \in {"sleep", "post_resp"}

\* C17: posted_links is empty while a tick's GET is in flight, and a
\* mark-posted request names a link no more often than the items fetched in
\* the same tick carry it, whatever the previous tick left unacknowledged.
C17_BatchIsTickScoped ==
    \A t \in Tasks :
        /\ pc[t] = "get" => posted_links[t] = <<>>
        /\ \A i \in 1..Len(log[t]) :
              log[t][i].op = "post" =>
                  \A k \in 1..Len(log[t][i].links) :
                      Len(SelectSeq(log[t][i].links, LAMBDA l : l = log[t][i].links[k]))
                          <= Occurrences(Fetched(log[t]), log[t][i].links[k])

\* C17 witness: the previous tick left two links unacknowledged and this
\* tick's request names one link only.
C17_Witness ==
    \E t \in Tasks :
        /\ Len(unacked[t]) = 2
        /\ pc[t] = "post"
        /\ Len(posted_links[t]) = 1

\* C19: every fetched item is sent, its `posted` flag notwithstanding, and a
\* link the response carries k times is sent k times; when all the sends
\* succeeded the mark-posted request carries the links of the response as
\* they came, repeats included.
C19_MembershipDecides ==
    \A t \in Tasks :
        LoopOver(t) =>
            LET F == Fetched(log[t])
                S == Ops(log[t], "send")
                P == Ops(log[t], "post")
            IN /\ \A k \in 1..Len(F) :
                     Len(SelectSeq(S, LAMBDA e : e.items[1].link = F[k].link))
                         = Occurrences(F, F[k].link)
               /\ (\A k \in 1..Len(S) : S[k].res = "ok") =>
                     (Len(P) = 1 /\ P[1].links = [k \in 1..Len(F) |-> F[k].link])

\* C19 witness: the response carried the same link twice on items flagged
\* posted; both were sent and the request names the link twice.
C19_Witness ==
    \E t \in Tasks :
        LET F == Fetched(log[t])
            P == Ops(log[t], "post")
        IN /\ pc[t] = "returned"
           /\ Len(F) = 2 /\ F[1] = F[2] /\ F[1].posted
           /\ Len(P) = 1 /\ P[1].links = <<F[1].link, F[1].link>>

\* Task t makes a chat send in this step.
Sends(t) == pc[t] = "send" /\ pc'[t] = "sleep"

\* C15: a tick whose sends all succeeded and whose mark-posted got a 2xx
\* made one request, with the links of the fetched items in their order; and
\* once a link is acknowledged that way no chat send of it happens any more,
\* so the item has been sent once overall.
C15_EndToEndOnce ==
    /\ [](\A t \in Tasks :
            LET F == Fetched(log[t])
                S == Ops(log[t], "send")
                P == Ops(log[t], "post")
            IN (/\ pc[t] = "returned"
                /\ F # <<>>
                /\ \A k \in 1..Len(S) : S[k].res = "ok"
                /\ log[t][Len(log[t])].res = "ok") =>
                   (Len(P) = 1 /\ P[1].links = [k \in 1..Len(F) |-> F[k].link]))
    /\ [][\A t \in Tasks : Sends(t) => items[t][idx[t] + 1].link \notin settled]_vars

\* C11 (as claimed): no GET is issued earlier than interval_seconds after
\* the task's interval was created.
C11_FirstTickAfterInterval ==
    \A t \in Tasks :
        log[t] # <<>> => log[t][1].at >= IntervalSeconds(env)

\* C11 (amended): the first GET is issued at time 0, when the interval is
\* created, and the GET of tick number k (k = 1, 2, ...) after it no earlier
\* than k * interval_seconds after that.
C11_TickNotBeforeItsInstant ==
    \A t \in Tasks :
        log[t] # <<>> =>
            /\ fired[t] >= 1
            /\ log[t][1].at >= (fired[t] - 1) * IntervalSeconds(env)
            /\ fired[t] = 1 => log[t][1].at = 0

\* C11 witness: with the default interval of 60 s, the first tick's GET is
\* in flight at time 0.
C11_Witness ==
    \E t \in Tasks :
        /\ IntervalSeconds(env) = DefaultInterval
        /\ pc[t] = "get" /\ fired[t] = 1
        /\ log[t][1].at = 0 /\ age[t] = 0

\* C13: whatever a tick meets (a failed fetch, failed sends, a failed or
\* refused acknowledgment), it ends and the task is back at the timer; and
\* from the timer the next tick starts, as long as the interval yields one.
C13_LoopNeverStops ==
    \A t \in Tasks :
        /\ InTick(t) ~> pc[t] = "tick"
        /\ (pc[t] = "tick" /\ fired[t] < MaxTicks) ~> InTick(t)

\* C13 witness: a tick is in progress after one that returned an error.
C13_Witness ==
    \E t \in Tasks : InTick(t) /\ result[t] = "Err" /\ fired[t] >= 2

\* C18: a task issues a tick's GET only from the timer, that is after the
\* call before has returned and its outcome was logged, also when the
\* tick's instant went by while that call was running.
C18_TicksAreSerial ==
    [][\A t \in Tasks :
          (log'[t] # log[t] /\ Len(log'[t]) = 1) =>
              (pc[t] = "tick" /\ ~InTick(t) /\ pc'[t] = "get")]_vars

\* C18 witness: a tick overran the interval and the next one started late,
\* after its instant.
C18_Witness ==
    \E t \in Tasks :
        /\ pc[t] = "get" /\ fired[t] >= 2
        /\ log[t][1].at > (fired[t] - 1) * IntervalSeconds(env)

\* C12: the gateway client is never connected and handling events while a
\* required configuration value is missing or invalid.
C12_ConfigErrorIsFatal ==
    (main = "running" /\ readyCount >= 1) =>
        /\ env.DISCORD_TOKEN = "valid"
        /\ env.CHANNEL_ID = "number"
        /\ env.BACKEND_API_URL = "set"
        /\ env.CHECK_INTERVAL_SECONDS # "garbage"

\* C16 (as claimed): the embed of an item whose pub_date parses as RFC 2822
\* carries the parsed instant, the embed of any other item the current
\* time, and the send of every fetched item takes place.
C16_TimestampIsParsedOrNow ==
    \A t \in Tasks :
        LET F == Fetched(log[t])
            S == Ops(log[t], "send")
        IN /\ \A k \in 1..Len(S) :
                 LET p == ParseRfc2822(S[k].items[1].pub_date)
                 IN S[k].ts = IF p.ok THEN [days |-> p.days, secs |-> p.secs]
                              ELSE NowInstant(S[k].at)
           /\ LoopOver(t) => \A k \in 1..Len(F) : Len(S) >= k /\ S[k].items = <<F[k]>>

\* C16 (amended): the embed carries the parsed instant when pub_date parses
\* as RFC 2822 to an instant Timestamp::from_unix_timestamp accepts; in every
\* other case (no RFC 2822 date, or an instant outside a Timestamp's range)
\* it carries the current time; the send of every fetched item takes place.
C16_TimestampIsParsedInRangeOrNow ==
    \A t \in Tasks :
        LET F == Fetched(log[t])
            S == Ops(log[t], "send")
        IN /\ \A k \in 1..Len(S) :
                 LET p == ParseRfc2822(S[k].items[1].pub_date)
                 IN S[k].ts = IF p.ok /\ p.days <= MaxTimestampDay
                              THEN [days |-> p.days, secs |-> p.secs]
                              ELSE NowInstant(S[k].at)
           /\ LoopOver(t) => \A k \in 1..Len(F) : Len(S) >= k /\ S[k].items = <<F[k]>>

\* C16 witness: a tick has sent an item dated 2 Oct 2024 with that instant,
\* then one with no date and one dated in the year 10000, both with the
\* clock's time.
C16_Witness ==
    \E t \in Tasks :
        LET S == Ops(log[t], "send")
        IN /\ pc[t] = "returned" /\ Len(S) = 3
           /\ S[1].items[1].pub_date = "Wed, 02 Oct 2024 15:00:00 +0000"
           /\ S[1].ts = [days |-> 19998, secs |-> 54000]
           /\ S[2].items[1].pub_date = "not-a-date"
           /\ S[2].ts = NowInstant(S[2].at)
           /\ S[3].items[1].pub_date = "Sat, 01 Jan 10000 00:00:00 +0000"
           /\ S[3].ts = NowInstant(S[3].at)

====
